---------------------------- MODULE Spec2Model ----------------------------
(***************************************************************************)
(* State-machine model of the EzyMetrics backend.                          *)
(*                                                                         *)
(*   app/utils/metrics.py   transform_lead_data, transform_campaign_data   *)
(*   app/utils/email.py     send_email_alert                               *)
(*   app/main.py            get_db_adapter, get_db, cleanup_report_file,   *)
(*                          fetch_data, generate_report, get_metrics       *)
(*                                                                         *)
(* Two specifications are given over one set of variables:                 *)
(*   SpecMetrics  the two pure aggregation functions applied to bounded    *)
(*                inputs, with a caller that may reorder its input;        *)
(*   Spec         the request handlers running as interleaved coroutines   *)
(*                (one atomic step per stretch of code between awaits).    *)
(***************************************************************************)
EXTENDS Integers, Sequences, FiniteSets, TLC

(***************************************************************************)
(* Bounds of the model.                                                    *)
(***************************************************************************)
\* longest lead sequence given to transform_lead_data
MaxLeads == 3
\* longest campaign sequence given to transform_campaign_data
MaxCampaigns == 3
\* significand width of the floating-point model (53 for a Python float)
MantBits == 2

(***************************************************************************)
(* Numbers.                                                                *)
(*                                                                         *)
(* Python ints are unbounded and are modelled by TLA+ integers.  A Python  *)
(* float is modelled as a non-negative binary floating-point number with   *)
(* a MantBits-bit significand and round-to-nearest-even: the values are    *)
(* the naturals m * 2^e with m < 2^MantBits.  The result of a true         *)
(* division is kept as the exact quotient num/den of its two operands      *)
(* (the code never adds or compares two quotients with each other);        *)
(* den = 0 stands for the ZeroDivisionError the division would raise.      *)
(***************************************************************************)
RECURSIVE Pow2(_)
Pow2(n) == IF n = 0 THEN 1 ELSE 2 * Pow2(n - 1)

\* the spacing of the floats around x: the least 2^e with x < 2^MantBits * 2^e
RECURSIVE Ulp(_, _)
Ulp(x, u) == IF x < Pow2(MantBits) * u THEN u ELSE Ulp(x, 2 * u)

\* round-to-nearest, ties-to-even, of the exact natural x
FRound(x) ==
    LET u   == Ulp(x, 1)
        lo  == (x \div u) * u
        rem == x - lo
    IN  IF 2 * rem < u THEN lo
        ELSE IF 2 * rem > u THEN lo + u
        ELSE IF (lo \div u) % 2 = 0 THEN lo ELSE lo + u

\* float.__add__
float_add(a, b) == FRound(a + b)

\* sum(<generator of ints>): left to right from 0
RECURSIVE SumInt(_, _)
SumInt(xs, acc) ==
    IF xs = << >> THEN acc ELSE SumInt(Tail(xs), acc + Head(xs))

\* sum(<generator of floats>): left to right from 0, one rounding per addition
RECURSIVE SumFloat(_, _)
SumFloat(xs, acc) ==
    IF xs = << >> THEN acc ELSE SumFloat(Tail(xs), float_add(acc, Head(xs)))

\* a / b
TrueDiv(a, b) == [num |-> a, den |-> b]
\* q * 100
Times100(q) == [num |-> q.num * 100, den |-> q.den]
\* the literal 0 of an else-branch
Zero == [num |-> 0, den |-> 1]
\* the division raised ZeroDivisionError
Faulted(q) == q.den = 0
\* equality of two quotients as numbers
RatEq(p, q) == p.den # 0 /\ q.den # 0 /\ p.num * q.den = q.num * p.den

(***************************************************************************)
(* app/utils/metrics.py                                                    *)
(***************************************************************************)
EmptyDict == [k \in {} |-> 0]

\* d.get(k, 0)
DictGet(d, k) == IF k \in DOMAIN d THEN d[k] ELSE 0

\* d[k] = d.get(k, 0) + 1
DictInc(d, k) ==
    [x \in (DOMAIN d) \cup {k} |-> IF x = k THEN DictGet(d, k) + 1 ELSE d[x]]

\* the for loop of transform_lead_data
RECURSIVE LeadLoop(_, _, _, _)
LeadLoop(leads, by_source, by_status, converted) ==
    IF leads = << >>
    THEN [leads_by_source |-> by_source,
          leads_by_status |-> by_status,
          converted_leads |-> converted]
    ELSE LET source == Head(leads).source
             status == Head(leads).status
         IN  LeadLoop(Tail(leads),
                      DictInc(by_source, source),
                      DictInc(by_status, status),
                      IF status = "Converted" THEN converted + 1 ELSE converted)

transform_lead_data_LowercaseToo(leads) ==
    IF leads = << >>
    THEN [total_leads |-> 0, leads_by_source |-> EmptyDict,
          leads_by_status |-> EmptyDict, conversion_rate |-> Zero]
    ELSE LET total_leads == Len(leads)
             acc == LeadLoop(leads, EmptyDict, EmptyDict, 0)
             conv == acc.converted_leads + DictGet(acc.leads_by_status, "converted")
         IN  [total_leads     |-> total_leads,
              leads_by_source |-> acc.leads_by_source,
              leads_by_status |-> acc.leads_by_status,
              conversion_rate |->
                  IF total_leads > 0
                  THEN Times100(TrueDiv(conv, total_leads))
                  ELSE Zero]

transform_lead_data(leads) ==
    IF leads = << >>
    THEN [total_leads |-> 0, leads_by_source |-> EmptyDict,
          leads_by_status |-> EmptyDict, conversion_rate |-> Zero]
    ELSE LET total_leads == Len(leads)
             acc == LeadLoop(leads, EmptyDict, EmptyDict, 0)
         IN  [total_leads     |-> total_leads,
              leads_by_source |-> acc.leads_by_source,
              leads_by_status |-> acc.leads_by_status,
              conversion_rate |->
                  IF total_leads > 0
                  THEN Times100(TrueDiv(acc.converted_leads, total_leads))
                  ELSE Zero]

\* [c["<field>"] for c in campaigns]
Column(campaigns, field) == [i \in 1..Len(campaigns) |-> campaigns[i][field]]

transform_campaign_data_SharedGuard(campaigns) ==
    IF campaigns = << >>
    THEN [total_campaigns |-> 0, total_spend |-> 0, total_impressions |-> 0,
          total_clicks |-> 0, total_conversions |-> 0,
          avg_conversion_rate |-> Zero, avg_ctr |-> Zero, avg_cpc |-> Zero]
    ELSE LET total_spend       == SumFloat(Column(campaigns, "spend"), 0)
             total_impressions == SumInt(Column(campaigns, "impressions"), 0)
             total_clicks      == SumInt(Column(campaigns, "clicks"), 0)
             total_conversions == SumInt(Column(campaigns, "conversions"), 0)
         IN  [total_campaigns   |-> Len(campaigns),
              total_spend       |-> total_spend,
              total_impressions |-> total_impressions,
              total_clicks      |-> total_clicks,
              total_conversions |-> total_conversions,
              avg_conversion_rate |->
                  IF total_clicks > 0
                  THEN Times100(TrueDiv(total_conversions, total_clicks))
                  ELSE Zero,
              avg_ctr |->
                  IF total_clicks > 0
                  THEN Times100(TrueDiv(total_clicks, total_impressions))
                  ELSE Zero,
              avg_cpc |->
                  IF total_clicks > 0
                  THEN TrueDiv(total_spend, total_clicks)
                  ELSE Zero]

transform_campaign_data(campaigns) ==
    IF campaigns = << >>
    THEN [total_campaigns |-> 0, total_spend |-> 0, total_impressions |-> 0,
          total_clicks |-> 0, total_conversions |-> 0,
          avg_conversion_rate |-> Zero, avg_ctr |-> Zero, avg_cpc |-> Zero]
    ELSE LET total_spend       == SumFloat(Column(campaigns, "spend"), 0)
             total_impressions == SumInt(Column(campaigns, "impressions"), 0)
             total_clicks      == SumInt(Column(campaigns, "clicks"), 0)
             total_conversions == SumInt(Column(campaigns, "conversions"), 0)
         IN  [total_campaigns   |-> Len(campaigns),
              total_spend       |-> total_spend,
              total_impressions |-> total_impressions,
              total_clicks      |-> total_clicks,
              total_conversions |-> total_conversions,
              avg_conversion_rate |->
                  IF total_clicks > 0
                  THEN Times100(TrueDiv(total_conversions, total_clicks))
                  ELSE Zero,
              avg_ctr |->
                  IF total_impressions > 0
                  THEN Times100(TrueDiv(total_clicks, total_impressions))
                  ELSE Zero,
              avg_cpc |->
                  IF total_clicks > 0
                  THEN TrueDiv(total_spend, total_clicks)
                  ELSE Zero]

(***************************************************************************)
(* Inputs of the aggregation functions.                                    *)
(***************************************************************************)
\* the labels of generate_dummy_leads, and one that differs from
\* "Converted" only in case
LeadSources  == {"Website", "LinkedIn"}
LeadStatuses == {"New", "Converted", "converted"}
LeadRecords  == [source : LeadSources, status : LeadStatuses]

\* spend is a float (two values whose sum needs rounding), the counters ints
SpendValues     == {1, Pow2(MantBits)}
CampaignRecords == [spend : SpendValues, impressions : {0, 1},
                    clicks : {0, 1}, conversions : {0, 1}]

SeqsUpTo(S, n) == UNION {[1..k -> S] : k \in 0..n}

\* the sequences with the same records as xs in another order
Reorderings(xs) ==
    LET n == Len(xs)
        Perms == {p \in [1..n -> 1..n] : \A i, j \in 1..n : p[i] = p[j] => i = j}
    IN  {[i \in 1..n |-> xs[p[i]]] : p \in Perms}

NoResult == [none |-> TRUE]

VARIABLES
    m_fn,               \* which function this run exercises: "leads" | "campaigns"
    m_leads,            \* the caller's list of leads
    m_campaigns,        \* the caller's list of campaigns
    lead_metrics,       \* the last value returned by transform_lead_data
    campaign_metrics,   \* the last value returned by transform_campaign_data
    first_lead_metrics,     \* the value returned by the first call
    first_campaign_metrics,
    environ,            \* os.environ["DATABASE_TYPE"], or "unset"
    process,            \* "importing" | "serving"
    DATABASE_TYPE,      \* the module global of app/main.py
    req,                \* the state of each request's coroutine
    files,              \* the working directory: path -> the request whose
                        \* to_csv wrote the file, 0 if there is no such file
    db_leads,           \* the leads the storage backend holds
    db_campaigns,       \* the campaigns the storage backend holds
    pg_leads,           \* the rows of the relational table "leads"
    pg_campaigns,       \* the rows of the relational table "campaigns"
    mongo_leads,        \* the documents of the collection db.leads
    mongo_campaigns,    \* the documents of the collection db.campaigns
    last_call,          \* the last adapter call, its argument, the stores
                        \* before it and what each backend did with it
    fetched             \* what the last get_leads/get_campaigns returned

mvars == <<m_fn, m_leads, m_campaigns, lead_metrics, campaign_metrics,
           first_lead_metrics, first_campaign_metrics>>

svars == <<environ, process, DATABASE_TYPE, req, files, db_leads, db_campaigns>>

avars == <<pg_leads, pg_campaigns, mongo_leads, mongo_campaigns,
          last_call, fetched>>

vars == <<mvars, svars, avars>>

(***************************************************************************)
(* app/main.py and app/utils/email.py                                      *)
(***************************************************************************)
\* generate_dummy_leads(count): 10 in the source
LeadCount == 1
\* generate_dummy_campaigns(count): 5 in the source
CampaignCount == 1

\* the requests in flight at once
Requests == {1, 2}

ReportTypes == {"leads", "campaigns", "invoices"}
ReportPaths == {"leads_report.csv", "campaigns_report.csv"}

Calls ==
    {[kind |-> "fetch", report_type |-> ""],
     [kind |-> "metrics", report_type |-> ""]}
    \cup {[kind |-> "report", report_type |-> t] : t \in ReportTypes}

\* what generate_dummy_campaigns can return, cut to the two counters the
\* alert depends on: clicks within randint(100, 5000) and conversions within
\* randint(10, 500); spend is a float and impressions are within
\* randint(10000, 100000)
DummyCampaigns ==
    [spend : {Pow2(MantBits)}, impressions : {10000},
     clicks : {200, 1001}, conversions : {10, 50}]
CampaignBatches == [1..CampaignCount -> DummyCampaigns]

IdleRequest ==
    [kind |-> "none", report_type |-> "", pc |-> "idle",
     adapter |-> "none",        \* the class get_db_adapter instantiated
     dep |-> "none",            \* get_db: "none" | "connecting" | "yielded" | "exited"
     connect |-> "none",        \* db.connect(): "none" | "pending" | "ok" | "raised"
     disconnect_calls |-> 0,    \* calls of db.disconnect()
     op_outside_connection |-> FALSE,   \* an insert_*/get_* was issued on an
                                        \* adapter not connected or disconnected
     handler_entered |-> FALSE,
     value_error |-> FALSE,     \* get_db_adapter raised ValueError
     status |-> 0,              \* the response's HTTP status, 0 before
     detail |-> "",
     response |-> "none",       \* "json" | "file" | "error"
     report_path |-> "",        \* "" is None
     files_created |-> 0,       \* files this request's to_csv created
     background_tasks |-> << >>,
     campaigns_data |-> << >>,
     idx |-> 0,                 \* the insert awaited: 1..LeadCount are leads
     issued |-> << >>,          \* the inserts the handler has called, in order
     returned |-> 0,            \* the inserts that have returned or raised
     failed |-> 0,              \* the insert that raised, 0 if none did
     exception |-> "",          \* str(e) of the exception it raised
     delivered |-> "nothing",
     alert |-> NoResult]        \* what send_email_alert did

\* get_db_adapter
get_db_adapter(database_type) ==
    IF database_type = "postgres" THEN "PostgresAdapter"
    ELSE IF database_type = "mongodb" THEN "MongoAdapter"
    ELSE "ValueError"

\* raise HTTPException(status_code=500, detail=str(e)); the tasks added to
\* background_tasks belong to the response the handler would have returned
\* and are not run
HTTP500(q, detail) ==
    [q EXCEPT !.status = 500, !.detail = detail, !.response = "error",
              !.pc = "respond"]

\* await db.insert_* / db.get_* is issued
IssueOp(q) ==
    [q EXCEPT !.op_outside_connection =
                  @ \/ q.connect # "ok" \/ q.disconnect_calls > 0]

\* get_db up to `await db.connect()`; an exception of get_db_adapter leaves
\* the dependency and the server answers 500
get_db_enter(q) ==
    LET db == get_db_adapter(DATABASE_TYPE)
    IN  IF db = "ValueError"
        THEN [q EXCEPT !.value_error = TRUE, !.status = 500,
                       !.detail = "Internal Server Error",
                       !.response = "error", !.pc = "respond"]
        ELSE [q EXCEPT !.adapter = db, !.dep = "connecting",
                       !.connect = "pending", !.pc = "connecting"]

\* get_db when connect() raises: the finally clause, then the exception
get_db_connect_raised_NoFinally(q) ==
    [q EXCEPT !.connect = "raised", !.dep = "exited", !.status = 500,
              !.detail = "Internal Server Error", !.response = "error",
              !.pc = "respond"]

get_db_connect_raised(q) ==
    [q EXCEPT !.connect = "raised", !.disconnect_calls = @ + 1,
              !.dep = "exited", !.status = 500,
              !.detail = "Internal Server Error", !.response = "error",
              !.pc = "respond"]

\* get_db when connect() returns: yield db
get_db_yield(q) == [q EXCEPT !.connect = "ok", !.dep = "yielded"]

\* get_db resumed after the handler has returned or raised: the finally clause
get_db_exit(q) == [q EXCEPT !.disconnect_calls = @ + 1, !.dep = "exited"]

\* f"{report_type}_report.csv"
ReportFile(report_type) ==
    IF report_type = "leads" THEN "leads_report.csv" ELSE "campaigns_report.csv"

\* cleanup_report_file
cleanup_report_file(fs, file_path) ==
    IF fs[file_path] # 0 THEN [fs EXCEPT ![file_path] = 0] ELSE fs

\* q < n for a quotient q with a positive denominator
RatLess(q, n) == q.num < n * q.den

\* f"{x:.2f}": the hundredths the text shows.  The digits are those of the
\* float nearest to the quotient, so a quotient half-way between two
\* hundredths may come out either way.
Format2f(q) ==
    LET n   == q.num * 100
        lo  == n \div q.den
        rem == n - lo * q.den
    IN  IF 2 * rem < q.den THEN {lo}
        ELSE IF 2 * rem > q.den THEN {lo + 1}
        ELSE {lo, lo + 1}

AlertTask(hundredths) ==
    [task |-> "send_email_alert",
     subject |-> "Low Conversion Rate Alert",
     body |-> [text |-> "Campaign conversion rate has dropped below 5%: ",
               rate_2f |-> hundredths]]

CleanupTask(path) == [task |-> "cleanup_report_file", file_path |-> path]

\* fetch_data from its entry to the first `await db.insert_lead`
\* the i-th insert of fetch_data: the leads in order, then the campaigns
Insert(i) ==
    IF i <= LeadCount THEN <<"insert_lead", i>>
    ELSE <<"insert_campaign", i - LeadCount>>

fetch_data_enter(q, campaigns_data) ==
    IssueOp([q EXCEPT !.handler_entered = TRUE,
                      !.campaigns_data = campaigns_data,
                      !.idx = 1, !.issued = <<Insert(1)>>, !.pc = "insert"])

\* fetch_data after its last insert has returned: the aggregate, the
\* threshold, the acknowledgment; shown is the text the format produced
fetch_data_finish_AlertAtFive(q, shown) ==
    LET campaign_metrics_ == transform_campaign_data(q.campaigns_data)
    IN  [q EXCEPT !.background_tasks =
                      IF ~RatLess(campaign_metrics_.avg_conversion_rate, 5)
                         /\ ~RatEq(campaign_metrics_.avg_conversion_rate,
                                   [num |-> 5, den |-> 1])
                      THEN @
                      ELSE Append(@, AlertTask(shown)),
                  !.status = 200,
                  !.detail = "Data fetched and stored successfully",
                  !.response = "json", !.pc = "respond"]

fetch_data_finish(q, shown) ==
    LET campaign_metrics_ == transform_campaign_data(q.campaigns_data)
    IN  [q EXCEPT !.background_tasks =
                      IF RatLess(campaign_metrics_.avg_conversion_rate, 5)
                      THEN Append(@, AlertTask(shown))
                      ELSE @,
                  !.status = 200,
                  !.detail = "Data fetched and stored successfully",
                  !.response = "json", !.pc = "respond"]

\* fetch_data resumed by an insert that returned (ok) or raised
\* a handler that logs the failure of an insert and goes on with the batch
fetch_data_resume_ContinuesAfterFailure(q, ok, shown) ==
    IF q.idx < LeadCount + CampaignCount
    THEN IssueOp([q EXCEPT !.idx = @ + 1, !.issued = Append(@, Insert(q.idx + 1))])
    ELSE IF ok THEN fetch_data_finish(q, shown) ELSE HTTP500(q, q.exception)

\* the awaited insert is over: its exception leaves both loops for the
\* except clause, its return lets the loop call the next insert
fetch_data_resume(q, ok, shown) ==
    IF ~ok THEN HTTP500(q, q.exception)
    ELSE IF q.idx < LeadCount + CampaignCount
         THEN IssueOp([q EXCEPT !.idx = @ + 1, !.issued = Append(@, Insert(q.idx + 1))])
         ELSE fetch_data_finish(q, shown)

\* the messages of the exceptions an insert raises
InsertErrors == {"connection is closed", "value too long"}

\* a store that keeps the record of an insert that raised
CommitInsert_KeepsFailed(stored, record, ok) == stored \cup {record}

\* insert_lead / insert_campaign on the backend: the record is committed when
\* the call returns, and nothing of it is stored when the call raises
CommitInsert(stored, record, ok) ==
    IF ok THEN stored \cup {record} ELSE stored

\* the except clause of generate_report
generate_report_except(q, fs, detail) ==
    [q     |-> HTTP500(q, detail),
     files |-> IF q.report_path # "" /\ fs[q.report_path] # 0
               THEN cleanup_report_file(fs, q.report_path)
               ELSE fs]

\* generate_report from its entry to `await db.get_*`, or to its end for an
\* unrecognised report_type
generate_report_enter(q) ==
    LET q1 == [q EXCEPT !.handler_entered = TRUE]
    IN  IF q.report_type \in {"leads", "campaigns"}
        THEN IssueOp([q1 EXCEPT !.pc = "get"])
        ELSE \* raise HTTPException(400) inside the try: `except Exception`
             \* catches it
             generate_report_except(q1, [p \in ReportPaths |-> 0],
                                    "400: Invalid report type").q

ReportOutcomes ==
    {"get_raises", "to_csv_raises_before_open", "to_csv_raises_after_open",
     "FileResponse_raises", "returns"}

\* generate_report resumed by db.get_*: the rest of the handler, which has
\* no other await
generate_report_resume(q, r, fs, outcome) ==
    LET path    == ReportFile(q.report_type)
        named   == [q EXCEPT !.report_path = path]
        written == [named EXCEPT !.files_created = @ + 1]
        fs1     == [fs EXCEPT ![path] = r]
        tasked  == [written EXCEPT !.background_tasks =
                                       Append(@, CleanupTask(path))]
    IN  CASE outcome = "get_raises" ->
                 generate_report_except(q, fs, "read failed")
          [] outcome = "to_csv_raises_before_open" ->
                 generate_report_except(named, fs, "write failed")
          [] outcome = "to_csv_raises_after_open" ->
                 generate_report_except(written, fs1, "write failed")
          [] outcome = "FileResponse_raises" ->
                 generate_report_except(tasked, fs1, "response failed")
          [] OTHER ->
                 [q     |-> [tasked EXCEPT !.status = 200, !.response = "file",
                                           !.pc = "respond"],
                  files |-> fs1]

\* get_metrics: entry, and resumption by get_leads and by get_campaigns
get_metrics_enter(q) == IssueOp([q EXCEPT !.handler_entered = TRUE, !.pc = "get"])

get_metrics_resume(q, ok) ==
    IF ~ok THEN HTTP500(q, "read failed")
    ELSE IF q.pc = "get" THEN IssueOp([q EXCEPT !.pc = "get2"])
    ELSE [q EXCEPT !.status = 200, !.response = "json", !.pc = "respond"]

EmailEnvs == [sender : BOOLEAN, password : BOOLEAN, recipient : BOOLEAN]
SmtpOutcomes == {"SMTP_SSL raises", "login raises", "send_message raises", "sent"}

\* the body of send_email_alert inside its try: env tells which of
\* EMAIL_SENDER, EMAIL_PASSWORD and DEFAULT_ALERT_RECIPIENT are set, smtp
\* what the mail server does
send_email_alert_try(env, smtp) ==
    IF ~(env.sender /\ env.password /\ env.recipient)
    THEN [configured |-> FALSE, smtp_connections |-> 0,
          logged |-> "Missing email configuration",
          sent |-> FALSE, exception |-> "none"]
    ELSE IF smtp = "sent"
    THEN [configured |-> TRUE, smtp_connections |-> 1,
          logged |-> "Alert email sent", sent |-> TRUE, exception |-> "none"]
    ELSE [configured |-> TRUE, smtp_connections |-> 1,
          logged |-> "", sent |-> FALSE, exception |-> smtp]

send_email_alert_NoExcept(env, smtp) ==
    LET b == send_email_alert_try(env, smtp)
    IN  [configured |-> b.configured, smtp_connections |-> b.smtp_connections,
         logged |-> b.logged, sent |-> b.sent,
         raised |-> b.exception # "none"]

\* send_email_alert: `except Exception` logs what the body raised
send_email_alert(env, smtp) ==
    LET b == send_email_alert_try(env, smtp)
    IN  [configured |-> b.configured, smtp_connections |-> b.smtp_connections,
         logged |-> IF b.exception # "none"
                    THEN "Failed to send email alert" ELSE b.logged,
         sent |-> b.sent,
         raised |-> FALSE]

(***************************************************************************)
(* app/database: the two storage adapters.                                 *)
(*                                                                         *)
(* A Python value is a record [type, v], v the text that str() gives for   *)
(* it; a dict is a function from the keys it has to their values.          *)
(***************************************************************************)
Str(s)        == [type |-> "str", v |-> s]
Number(s)     == [type |-> "number", v |-> s]
PyInt(n)      == [type |-> "int", v |-> ToString(n)]
DateTime(s)   == [type |-> "datetime", v |-> s]
ObjectId(n)   == [type |-> "ObjectId", v |-> ToString(n)]
None          == [type |-> "NoneType", v |-> "None"]
ValueError    == [type |-> "ValueError", v |-> "Invalid isoformat string"]

NoDict == << >>

Restrict(d, keys) == [k \in keys |-> d[k]]

\* d with d[k] = x, as the assignment d[k] = x leaves the dict
DictSet(d, k, x) == [j \in DOMAIN d \cup {k} |-> IF j = k THEN x ELSE d[j]]

\* isinstance(x, datetime)
IsDateTime(x) == x.type = "datetime"

\* str(x)
str(x) == x.v

\* the texts handed to the adapters as dates, and the ones among them that
\* are dates in ISO 8601 form
DateTexts       == {"2024-01-15", "2024-02-01T09:30:00", "15/01/2024"}
WellFormedDates == {"2024-01-15", "2024-02-01T09:30:00"}

\* datetime.fromisoformat(text): the timestamp the text denotes, or the
\* ValueError it raises
fromisoformat(text) ==
    CASE text = "2024-01-15"          -> DateTime("2024-01-15 00:00:00")
      [] text = "2024-02-01T09:30:00" -> DateTime("2024-02-01 09:30:00")
      [] OTHER                        -> ValueError

\* datetime.utcnow() at the time of the call
UtcNow == {DateTime("2024-03-01 12:00:00")}

\* what an adapter call does: whether it raised, and the store after it
Raised(store)   == [raised |-> TRUE, store |-> store]
Returned(store) == [raised |-> FALSE, store |-> store]

\* ---- postgres_adapter.py ----
\* class Lead(Base): the columns beside the primary key, and the DateTime ones
LeadColumns     == {"name", "email", "source", "status", "created_at"}
LeadDateColumns == {"created_at"}

\* class Campaign(Base)
CampaignColumns     == {"name", "platform", "budget", "spend", "impressions",
                        "clicks", "conversions", "start_date", "end_date"}
CampaignDateColumns == {"start_date", "end_date"}

\* session.add(Model(**data)) inside session.begin(): the constructor takes
\* column names only; a column not given is NULL unless it has a default;
\* the asyncpg driver of DATABASE_URL binds a DateTime column to a datetime
\* only, so any other value raises at the flush and session.begin() rolls
\* the transaction back; otherwise the row is committed with the next id
PostgresInsert(table, data, columns, date_columns, defaults) ==
    IF ~(DOMAIN data \subseteq columns \cup {"id"})
    THEN Raised(table)
    ELSE LET row == [c \in columns \cup {"id"} |->
                        IF c \in DOMAIN data THEN data[c]
                        ELSE IF c = "id" THEN PyInt(Len(table) + 1)
                        ELSE IF c \in DOMAIN defaults THEN defaults[c]
                        ELSE None]
         IN  IF \E c \in date_columns : ~IsDateTime(row[c]) /\ row[c] # None
             THEN Raised(table)
             ELSE Returned(Append(table, row))

\* PostgresAdapter.insert_lead; created_at has default=datetime.utcnow
PostgresAdapter_insert_lead(table, lead_data, now) ==
    PostgresInsert(table, lead_data, LeadColumns, LeadDateColumns,
                   [c \in {"created_at"} |-> now])

\* PostgresAdapter.insert_campaign: the dict goes to Campaign(**campaign_data)
\* as it is; no column of Campaign has a default
PostgresAdapter_insert_campaign(table, campaign_data) ==
    PostgresInsert(table, campaign_data, CampaignColumns, CampaignDateColumns, NoDict)

\* PostgresAdapter.get_leads: one dict per row, with every column as a key
PostgresAdapter_get_leads(table) ==
    [i \in 1..Len(table) |-> [k \in LeadColumns \cup {"id"} |-> table[i][k]]]

\* PostgresAdapter.get_campaigns
PostgresAdapter_get_campaigns(table) ==
    [i \in 1..Len(table) |-> [k \in CampaignColumns \cup {"id"} |-> table[i][k]]]

\* ---- mongo_adapter.py ----
\* collection.insert_one(document): the document is stored with the keys it
\* has and a fresh _id
insert_one(collection, document) ==
    Append(collection, DictSet(document, "_id", ObjectId(Len(collection) + 1)))

\* MongoAdapter.insert_lead
MongoAdapter_insert_lead(collection, lead_data, now) ==
    LET filled == IF "created_at" \notin DOMAIN lead_data
                  THEN DictSet(lead_data, "created_at", now)
                  ELSE lead_data
    IN  Returned(insert_one(collection, filled))

\* one turn of the loop of insert_campaign over ['start_date', 'end_date']
ParseDateField(campaign_data, field) ==
    IF field \in DOMAIN campaign_data /\ ~IsDateTime(campaign_data[field])
    THEN LET parsed == fromisoformat(str(campaign_data[field]))
         IN  IF parsed = ValueError
             THEN [raised |-> TRUE, data |-> campaign_data]
             ELSE [raised |-> FALSE, data |-> DictSet(campaign_data, field, parsed)]
    ELSE [raised |-> FALSE, data |-> campaign_data]

\* MongoAdapter.insert_campaign: a ValueError of fromisoformat leaves the
\* loop before insert_one is reached, and is raised again by the except
MongoAdapter_insert_campaign(collection, campaign_data) ==
    LET first == ParseDateField(campaign_data, "start_date")
        second == ParseDateField(first.data, "end_date")
    IN  IF first.raised \/ second.raised
        THEN Raised(collection)
        ELSE Returned(insert_one(collection, second.data))

\* lead['id'] = str(lead.pop('_id')) on every document of the cursor
PopId(document) ==
    DictSet(Restrict(document, DOMAIN document \ {"_id"}), "id",
            Str(str(document["_id"])))

\* MongoAdapter.get_leads
MongoAdapter_get_leads(collection) ==
    [i \in 1..Len(collection) |-> PopId(collection[i])]

\* MongoAdapter.get_campaigns
MongoAdapter_get_campaigns(collection) ==
    [i \in 1..Len(collection) |-> PopId(collection[i])]

\* ---- the dicts handed to the adapters ----
\* the insert calls of one run
MaxInserts == 2

LeadDict ==
    [k \in LeadColumns |->
        CASE k = "name"       -> Str("Lead 0")
          [] k = "email"      -> Str("lead0@example.com")
          [] k = "source"     -> Str("Website")
          [] k = "status"     -> Str("New")
          [] k = "created_at" -> DateTime("2024-01-10 08:00:00")]

\* a lead with every field, one without created_at, one without email
LeadDicts ==
    {Restrict(LeadDict, LeadColumns \ absent) :
        absent \in {{}, {"created_at"}, {"email"}}}

CampaignDict ==
    [k \in CampaignColumns \ CampaignDateColumns |->
        CASE k = "name"     -> Str("Campaign 0")
          [] k = "platform" -> Str("Facebook")
          [] k = "budget"   -> Number("5000.0")
          [] k = "spend"    -> Number("1200.5")
          [] OTHER          -> Number("100")]

\* a date field as a caller may give it: a datetime or a text
DateValues == {DateTime("2024-01-20 00:00:00")} \cup {Str(t) : t \in DateTexts}

\* campaigns whose start_date and end_date are each absent, a datetime or a text
CampaignDicts ==
    LET WithField(ds, field) ==
            ds \cup {DictSet(d, field, x) : d \in ds, x \in DateValues}
    IN  WithField(WithField({CampaignDict}, "start_date"), "end_date")

NoCall == [op |-> "none", arg |-> NoDict, inserts |-> 0,
           pg_raised |-> FALSE, mongo_raised |-> FALSE,
           pg_before |-> << >>, mongo_before |-> << >>,
           agreed |-> TRUE, supplied_leads |-> << >>, supplied_campaigns |-> << >>]

NoFetch == [op |-> "none", pg |-> << >>, mongo |-> << >>]

AdaptersIdle ==
    /\ pg_leads = << >>
    /\ pg_campaigns = << >>
    /\ mongo_leads = << >>
    /\ mongo_campaigns = << >>
    /\ last_call = NoCall
    /\ fetched = NoFetch

(***************************************************************************)
(* The server: one action per stretch of code between two awaits.          *)
(***************************************************************************)
ServerIdle ==
    /\ environ = "unset"
    /\ process = "importing"
    /\ DATABASE_TYPE = "unread"
    /\ req = [r \in Requests |-> IdleRequest]
    /\ files = [p \in ReportPaths |-> 0]
    /\ db_leads = {}
    /\ db_campaigns = {}

MetricsIdle ==
    /\ m_fn = "none"
    /\ m_leads = << >>
    /\ m_campaigns = << >>
    /\ lead_metrics = NoResult
    /\ campaign_metrics = NoResult
    /\ first_lead_metrics = NoResult
    /\ first_campaign_metrics = NoResult

Init ==
    /\ MetricsIdle
    /\ AdaptersIdle
    /\ environ \in {"unset", "mongodb", "sqlite"}
    /\ process = "importing"
    /\ DATABASE_TYPE = "unread"
    /\ req = [r \in Requests |-> IdleRequest]
    /\ files = [p \in ReportPaths |-> 0]
    /\ db_leads = {}
    /\ db_campaigns = {}

\* import of app.main: DATABASE_TYPE = os.getenv("DATABASE_TYPE", "postgres");
\* nothing is validated, and the server starts
Startup ==
    /\ process = "importing"
    /\ DATABASE_TYPE' = IF environ = "unset" THEN "postgres" ELSE environ
    /\ process' = "serving"
    /\ UNCHANGED <<environ, req, files, db_leads, db_campaigns>>
    /\ UNCHANGED <<mvars, avars>>

\* a request arrives; FastAPI resolves Depends(get_db)
ReceiveRequest(r) ==
    /\ process = "serving"
    /\ req[r].pc = "idle"
    /\ \E call \in Calls :
           req' = [req EXCEPT ![r] =
                      get_db_enter([@ EXCEPT !.kind = call.kind,
                                             !.report_type = call.report_type])]
    /\ UNCHANGED <<environ, process, DATABASE_TYPE, files, db_leads, db_campaigns>>
    /\ UNCHANGED <<mvars, avars>>

\* db.connect() raises
ConnectRaises(r) ==
    /\ req[r].pc = "connecting"
    /\ req' = [req EXCEPT ![r] = get_db_connect_raised(@)]
    /\ UNCHANGED <<environ, process, DATABASE_TYPE, files, db_leads, db_campaigns>>
    /\ UNCHANGED <<mvars, avars>>

\* db.connect() returns: get_db yields and the handler runs to its first await
ConnectReturns(r) ==
    /\ req[r].pc = "connecting"
    /\ LET q == get_db_yield(req[r])
       IN  \/ /\ q.kind = "fetch"
              /\ \E campaigns_data \in CampaignBatches :
                     req' = [req EXCEPT ![r] = fetch_data_enter(q, campaigns_data)]
           \/ /\ q.kind = "report"
              /\ req' = [req EXCEPT ![r] = generate_report_enter(q)]
           \/ /\ q.kind = "metrics"
              /\ req' = [req EXCEPT ![r] = get_metrics_enter(q)]
    /\ UNCHANGED <<environ, process, DATABASE_TYPE, files, db_leads, db_campaigns>>
    /\ UNCHANGED <<mvars, avars>>

\* the awaited insert of fetch_data returns or raises
InsertReturns(r) ==
    /\ req[r].pc = "insert"
    /\ LET q == req[r]
           rate == transform_campaign_data(q.campaigns_data).avg_conversion_rate
       IN  \E ok \in BOOLEAN, e \in InsertErrors, shown \in Format2f(rate) :
               LET over == [q EXCEPT !.returned = @ + 1,
                                     !.failed = IF ok THEN 0 ELSE q.idx,
                                     !.exception = IF ok THEN "" ELSE e]
               IN  /\ req' = [req EXCEPT ![r] = fetch_data_resume(over, ok, shown)]
                   /\ db_leads' = IF q.idx <= LeadCount
                                  THEN CommitInsert(db_leads, <<r, q.idx>>, ok)
                                  ELSE db_leads
                   /\ db_campaigns' =
                          IF q.idx > LeadCount
                          THEN CommitInsert(db_campaigns, <<r, q.idx - LeadCount>>, ok)
                          ELSE db_campaigns
    /\ UNCHANGED <<environ, process, DATABASE_TYPE, files>>
    /\ UNCHANGED <<mvars, avars>>

\* the awaited get_* of generate_report returns or raises, and the handler
\* runs to its end
ReportResumes(r) ==
    /\ req[r].pc = "get"
    /\ req[r].kind = "report"
    /\ \E outcome \in ReportOutcomes :
           LET res == generate_report_resume(req[r], r, files, outcome)
           IN  /\ req' = [req EXCEPT ![r] = res.q]
               /\ files' = res.files
    /\ UNCHANGED <<environ, process, DATABASE_TYPE, db_leads, db_campaigns>>
    /\ UNCHANGED <<mvars, avars>>

\* an awaited get_* of get_metrics returns or raises
MetricsResumes(r) ==
    /\ req[r].pc \in {"get", "get2"}
    /\ req[r].kind = "metrics"
    /\ \E ok \in BOOLEAN :
           req' = [req EXCEPT ![r] = get_metrics_resume(@, ok)]
    /\ UNCHANGED <<environ, process, DATABASE_TYPE, files, db_leads, db_campaigns>>
    /\ UNCHANGED <<mvars, avars>>

\* the server sends the response; a FileResponse reads its file now, and
\* fails without running its background task when the file is not there
Respond(r) ==
    /\ req[r].pc = "respond"
    /\ LET q == req[r]
       IN  req' = [req EXCEPT ![r] =
               IF q.response = "file"
               THEN IF files[q.report_path] = 0
                    THEN [q EXCEPT !.delivered = "file missing", !.pc = "complete"]
                    ELSE [q EXCEPT !.delivered =
                                       IF files[q.report_path] = r
                                       THEN "own file" ELSE "file of another request",
                                   !.pc = "background"]
               ELSE [q EXCEPT !.delivered = q.response,
                              !.pc = IF q.status = 200 /\ q.background_tasks # << >>
                                     THEN "background" ELSE "complete"]]
    /\ UNCHANGED <<environ, process, DATABASE_TYPE, files, db_leads, db_campaigns>>
    /\ UNCHANGED <<mvars, avars>>

\* the response's background task runs
RunBackground(r) ==
    /\ req[r].pc = "background"
    /\ LET task == Head(req[r].background_tasks)
       IN  \/ /\ task.task = "cleanup_report_file"
              /\ files' = cleanup_report_file(files, task.file_path)
              /\ req' = [req EXCEPT ![r].pc = "complete"]
           \/ /\ task.task = "send_email_alert"
              /\ \E env \in EmailEnvs, smtp \in SmtpOutcomes :
                     req' = [req EXCEPT ![r].alert = send_email_alert(env, smtp),
                                        ![r].pc = "complete"]
              /\ UNCHANGED files
    /\ UNCHANGED <<environ, process, DATABASE_TYPE, db_leads, db_campaigns>>
    /\ UNCHANGED <<mvars, avars>>

\* FastAPI resumes get_db once the handler is over; the release of the
\* server decides whether that is before or after the response is sent
ExitDependency(r) ==
    /\ req[r].dep = "yielded"
    /\ req[r].pc \in {"respond", "background", "complete"}
    /\ req' = [req EXCEPT ![r] = get_db_exit(@)]
    /\ UNCHANGED <<environ, process, DATABASE_TYPE, files, db_leads, db_campaigns>>
    /\ UNCHANGED <<mvars, avars>>

Next ==
    \/ Startup
    \/ \E r \in Requests : ReceiveRequest(r)
    \/ \E r \in Requests : ConnectRaises(r)
    \/ \E r \in Requests : ConnectReturns(r)
    \/ \E r \in Requests : InsertReturns(r)
    \/ \E r \in Requests : ReportResumes(r)
    \/ \E r \in Requests : MetricsResumes(r)
    \/ \E r \in Requests : Respond(r)
    \/ \E r \in Requests : RunBackground(r)
    \/ \E r \in Requests : ExitDependency(r)

Spec == Init /\ [][Next]_vars

\* the request is over: response sent, background task run, dependency left
Finished(q) == q.pc = "complete" /\ q.dep \in {"none", "exited"}

(***************************************************************************)
(* The aggregation functions on their own.                                 *)
(***************************************************************************)
MetricsInit ==
    /\ ServerIdle
    /\ AdaptersIdle
    /\ m_fn \in {"leads", "campaigns"}
    /\ m_leads \in (IF m_fn = "leads" THEN SeqsUpTo(LeadRecords, MaxLeads) ELSE {<< >>})
    /\ m_campaigns \in (IF m_fn = "campaigns"
                        THEN SeqsUpTo(CampaignRecords, MaxCampaigns) ELSE {<< >>})
    /\ lead_metrics = NoResult
    /\ campaign_metrics = NoResult
    /\ first_lead_metrics = NoResult
    /\ first_campaign_metrics = NoResult

\* a call transform_lead_data(m_leads); the function assigns to no element
\* of its argument, so the caller's list is as it was
CallTransformLeads ==
    /\ m_fn = "leads"
    /\ lead_metrics' = transform_lead_data(m_leads)
    /\ first_lead_metrics' =
           IF first_lead_metrics = NoResult
           THEN transform_lead_data(m_leads) ELSE first_lead_metrics
    /\ UNCHANGED <<m_fn, m_leads, m_campaigns, campaign_metrics,
                   first_campaign_metrics>>
    /\ UNCHANGED <<svars, avars>>

\* a call transform_campaign_data(m_campaigns)
CallTransformCampaigns ==
    /\ m_fn = "campaigns"
    /\ campaign_metrics' = transform_campaign_data(m_campaigns)
    /\ first_campaign_metrics' =
           IF first_campaign_metrics = NoResult
           THEN transform_campaign_data(m_campaigns) ELSE first_campaign_metrics
    /\ UNCHANGED <<m_fn, m_leads, m_campaigns, lead_metrics, first_lead_metrics>>
    /\ UNCHANGED <<svars, avars>>

\* the caller passes the same records in another order next time
ReorderLeads ==
    /\ m_fn = "leads"
    /\ lead_metrics # NoResult
    /\ \E xs \in Reorderings(m_leads) :
           /\ xs # m_leads
           /\ m_leads' = xs
    /\ lead_metrics' = NoResult
    /\ UNCHANGED <<m_fn, m_campaigns, campaign_metrics, first_lead_metrics,
                   first_campaign_metrics>>
    /\ UNCHANGED <<svars, avars>>

ReorderCampaigns ==
    /\ m_fn = "campaigns"
    /\ campaign_metrics # NoResult
    /\ \E xs \in Reorderings(m_campaigns) :
           /\ xs # m_campaigns
           /\ m_campaigns' = xs
    /\ campaign_metrics' = NoResult
    /\ UNCHANGED <<m_fn, m_leads, lead_metrics, first_lead_metrics,
                   first_campaign_metrics>>
    /\ UNCHANGED <<svars, avars>>

MetricsNext ==
    \/ CallTransformLeads
    \/ CallTransformCampaigns
    \/ ReorderLeads
    \/ ReorderCampaigns

SpecMetrics == MetricsInit /\ [][MetricsNext]_vars

(***************************************************************************)
(* The two adapters side by side: every call is made on both backends with *)
(* the same argument at the same time.                                     *)
(***************************************************************************)
AdaptersInit ==
    /\ MetricsIdle
    /\ ServerIdle
    /\ AdaptersIdle

\* what last_call records of an insert: op is the method, arg the dict, pg
\* and mongo what each backend did, before_pg and before_mongo the stores
\* the call found
InsertCall(op, arg, pg, mongo, before_pg, before_mongo) ==
    LET both == ~pg.raised /\ ~mongo.raised
    IN  [op |-> op, arg |-> arg, inserts |-> last_call.inserts + 1,
         pg_raised |-> pg.raised, mongo_raised |-> mongo.raised,
         pg_before |-> before_pg, mongo_before |-> before_mongo,
         agreed |-> last_call.agreed /\ (pg.raised = mongo.raised),
         supplied_leads |->
             IF both /\ op = "insert_lead"
             THEN Append(last_call.supplied_leads, arg)
             ELSE last_call.supplied_leads,
         supplied_campaigns |->
             IF both /\ op = "insert_campaign"
             THEN Append(last_call.supplied_campaigns, arg)
             ELSE last_call.supplied_campaigns]

InsertLeadOnBoth ==
    /\ last_call.inserts < MaxInserts
    /\ \E lead_data \in LeadDicts, now \in UtcNow :
          LET pg    == PostgresAdapter_insert_lead(pg_leads, lead_data, now)
              mongo == MongoAdapter_insert_lead(mongo_leads, lead_data, now)
          IN  /\ pg_leads' = pg.store
              /\ mongo_leads' = mongo.store
              /\ last_call' = InsertCall("insert_lead", lead_data, pg, mongo,
                                         pg_leads, mongo_leads)
    /\ fetched' = NoFetch
    /\ UNCHANGED <<pg_campaigns, mongo_campaigns>>
    /\ UNCHANGED <<mvars, svars>>

InsertCampaignOnBoth ==
    /\ last_call.inserts < MaxInserts
    /\ \E campaign_data \in CampaignDicts :
          LET pg    == PostgresAdapter_insert_campaign(pg_campaigns, campaign_data)
              mongo == MongoAdapter_insert_campaign(mongo_campaigns, campaign_data)
          IN  /\ pg_campaigns' = pg.store
              /\ mongo_campaigns' = mongo.store
              /\ last_call' = InsertCall("insert_campaign", campaign_data, pg, mongo,
                                         pg_campaigns, mongo_campaigns)
    /\ fetched' = NoFetch
    /\ UNCHANGED <<pg_leads, mongo_leads>>
    /\ UNCHANGED <<mvars, svars>>

GetLeadsOnBoth ==
    /\ fetched' = [op |-> "get_leads",
                   pg |-> PostgresAdapter_get_leads(pg_leads),
                   mongo |-> MongoAdapter_get_leads(mongo_leads)]
    /\ UNCHANGED <<pg_leads, pg_campaigns, mongo_leads, mongo_campaigns, last_call>>
    /\ UNCHANGED <<mvars, svars>>

GetCampaignsOnBoth ==
    /\ fetched' = [op |-> "get_campaigns",
                   pg |-> PostgresAdapter_get_campaigns(pg_campaigns),
                   mongo |-> MongoAdapter_get_campaigns(mongo_campaigns)]
    /\ UNCHANGED <<pg_leads, pg_campaigns, mongo_leads, mongo_campaigns, last_call>>
    /\ UNCHANGED <<mvars, svars>>

AdaptersNext ==
    \/ InsertLeadOnBoth
    \/ InsertCampaignOnBoth
    \/ GetLeadsOnBoth
    \/ GetCampaignsOnBoth

SpecAdapters == AdaptersInit /\ [][AdaptersNext]_vars

(***************************************************************************)
(* Claims about the aggregation functions (checked under SpecMetrics).     *)
(***************************************************************************)
\* the sum of a column, stated by its prefix sums
SigmaInt(xs) ==
    LET ps[i \in 0..Len(xs)] == IF i = 0 THEN 0 ELSE ps[i - 1] + xs[i]
    IN  ps[Len(xs)]

\* the sum of a float column: each prefix sum is the nearest float
SigmaFloat(xs) ==
    LET ps[i \in 0..Len(xs)] == IF i = 0 THEN 0 ELSE FRound(ps[i - 1] + xs[i])
    IN  ps[Len(xs)]

\* q is the number n / d
IsQuotient(q, n, d) == q.den # 0 /\ q.num * d = n * q.den

\* C8: for every finite sequence of campaigns, transform_campaign_data
\* returns total_campaigns = the length, the four totals = the sums of the
\* fields, and each ratio guarded by its own denominator:
\* avg_conversion_rate = total_conversions / total_clicks * 100 if
\* total_clicks > 0 else 0, avg_ctr = total_clicks / total_impressions * 100
\* if total_impressions > 0 else 0, avg_cpc = total_spend / total_clicks if
\* total_clicks > 0 else 0; no division faults, and the empty sequence gives
\* all sums 0 and all ratios 0.
C8_CampaignAggregate ==
    campaign_metrics # NoResult =>
      LET R     == campaign_metrics
          spend == SigmaFloat(Column(m_campaigns, "spend"))
          impr  == SigmaInt(Column(m_campaigns, "impressions"))
          clk   == SigmaInt(Column(m_campaigns, "clicks"))
          conv  == SigmaInt(Column(m_campaigns, "conversions"))
      IN  /\ R.total_campaigns = Len(m_campaigns)
          /\ R.total_spend = spend
          /\ R.total_impressions = impr
          /\ R.total_clicks = clk
          /\ R.total_conversions = conv
          /\ ~Faulted(R.avg_conversion_rate)
          /\ ~Faulted(R.avg_ctr)
          /\ ~Faulted(R.avg_cpc)
          /\ IF clk > 0
             THEN IsQuotient(R.avg_conversion_rate, conv * 100, clk)
             ELSE R.avg_conversion_rate.num = 0
          /\ IF impr > 0
             THEN IsQuotient(R.avg_ctr, clk * 100, impr)
             ELSE R.avg_ctr.num = 0
          /\ IF clk > 0
             THEN IsQuotient(R.avg_cpc, spend, clk)
             ELSE R.avg_cpc.num = 0
          /\ m_campaigns = << >> =>
                /\ R.total_spend = 0 /\ R.total_impressions = 0
                /\ R.total_clicks = 0 /\ R.total_conversions = 0
                /\ R.avg_conversion_rate.num = 0
                /\ R.avg_ctr.num = 0 /\ R.avg_cpc.num = 0

\* C8 witness: an aggregate of several campaigns with clicks but no
\* impressions, and one of campaigns with spend but no clicks
C8_Witness ==
    /\ campaign_metrics # NoResult
    /\ Len(m_campaigns) >= 2
    /\ campaign_metrics.total_clicks > 0
    /\ campaign_metrics.total_impressions = 0
    /\ campaign_metrics.total_conversions > 0
    /\ campaign_metrics.avg_ctr.num = 0
    /\ campaign_metrics.avg_cpc.num > 0

\* C9: for every finite sequence of leads, transform_lead_data returns
\* total_leads = the length, leads_by_source and leads_by_status keyed by
\* exactly the labels present with the number of leads of each label (so the
\* values of each mapping sum to total_leads), and conversion_rate = the
\* number of leads whose status is exactly "Converted" / total_leads * 100;
\* the empty sequence gives 0, two empty mappings and rate 0.
C9_LeadAggregate ==
    lead_metrics # NoResult =>
      LET R == lead_metrics
          n == Len(m_leads)
          Count(field, label) ==
              Cardinality({i \in 1..n : m_leads[i][field] = label})
          Keyed(d, field) ==
              /\ DOMAIN d = {m_leads[i][field] : i \in 1..n}
              /\ \A k \in DOMAIN d : d[k] = Count(field, k)
          RECURSIVE Total(_, _)
          Total(d, keys) ==
              IF keys = {} THEN 0
              ELSE LET k == CHOOSE x \in keys : TRUE
                   IN  d[k] + Total(d, keys \ {k})
      IN  /\ R.total_leads = n
          /\ Keyed(R.leads_by_source, "source")
          /\ Keyed(R.leads_by_status, "status")
          /\ Total(R.leads_by_source, DOMAIN R.leads_by_source) = n
          /\ Total(R.leads_by_status, DOMAIN R.leads_by_status) = n
          /\ ~Faulted(R.conversion_rate)
          /\ IF n > 0
             THEN IsQuotient(R.conversion_rate,
                             Count("status", "Converted") * 100, n)
             ELSE /\ R.conversion_rate.num = 0
                  /\ DOMAIN R.leads_by_source = {}
                  /\ DOMAIN R.leads_by_status = {}

\* C9 witness: an aggregate of three leads from two sources, one of them
\* "Converted" and one "converted"
C9_Witness ==
    /\ lead_metrics # NoResult
    /\ lead_metrics.total_leads = 3
    /\ DOMAIN lead_metrics.leads_by_source = LeadSources
    /\ DOMAIN lead_metrics.leads_by_status = {"New", "Converted", "converted"}
    /\ lead_metrics.conversion_rate.num * 3 = 100 * lead_metrics.conversion_rate.den

SameLeadMetrics(a, b) ==
    /\ a.total_leads = b.total_leads
    /\ a.leads_by_source = b.leads_by_source
    /\ a.leads_by_status = b.leads_by_status
    /\ RatEq(a.conversion_rate, b.conversion_rate)

SameCampaignCounters(a, b) ==
    /\ a.total_campaigns = b.total_campaigns
    /\ a.total_impressions = b.total_impressions
    /\ a.total_clicks = b.total_clicks
    /\ a.total_conversions = b.total_conversions
    /\ RatEq(a.avg_conversion_rate, b.avg_conversion_rate)
    /\ RatEq(a.avg_ctr, b.avg_ctr)

SameCampaignMetrics(a, b) ==
    /\ SameCampaignCounters(a, b)
    /\ a.total_spend = b.total_spend
    /\ RatEq(a.avg_cpc, b.avg_cpc)

\* C10: transform_lead_data and transform_campaign_data are
\* order-independent: whatever order the caller passes the same records in,
\* every field of the aggregate equals that of the first call.
C10_OrderIndependent ==
    /\ lead_metrics # NoResult =>
           SameLeadMetrics(lead_metrics, first_lead_metrics)
    /\ campaign_metrics # NoResult =>
           SameCampaignMetrics(campaign_metrics, first_campaign_metrics)

\* the part of C10 that does not rest on float addition
OrderIndependentExceptSpend ==
    /\ lead_metrics # NoResult =>
           SameLeadMetrics(lead_metrics, first_lead_metrics)
    /\ campaign_metrics # NoResult =>
           SameCampaignCounters(campaign_metrics, first_campaign_metrics)


(***************************************************************************)
(* Claims about the request handlers (checked under Spec).                 *)
(***************************************************************************)
\* C1: a report request whose kind is neither "leads" nor "campaigns" ends
\* with HTTP 400, never HTTP 500, and creates no report file.
C1_InvalidKindIsClientError ==
    \A r \in Requests :
        LET q == req[r]
        IN  (/\ q.kind = "report"
             /\ q.report_type \notin {"leads", "campaigns"}
             /\ q.handler_entered
             /\ q.status # 0)
            => (q.status = 400 /\ q.files_created = 0)

\* C2: every request that obtained an adapter through get_db has called its
\* disconnect() exactly once by the time the request is over, whether the
\* handler returned, the handler raised or connect() raised; and no
\* insert_*/get_* is issued before connect() has returned or after
\* disconnect() has been called.
C2_ScopedAdapter ==
    \A r \in Requests :
        LET q == req[r]
        IN  /\ q.disconnect_calls <= 1
            /\ (Finished(q) /\ q.adapter # "none") => q.disconnect_calls = 1
            /\ q.dep = "exited" => q.disconnect_calls = 1
            /\ ~q.op_outside_connection
            /\ q.handler_entered => q.connect = "ok"

\* C2 witness: one request over whose connect() raised, another over whose
\* handler raised after an operation, each with one disconnect()
C2_Witness ==
    \E r1, r2 \in Requests :
        /\ Finished(req[r1]) /\ req[r1].connect = "raised"
        /\ req[r1].disconnect_calls = 1
        /\ Finished(req[r2]) /\ req[r2].connect = "ok"
        /\ req[r2].kind = "fetch" /\ req[r2].status = 500
        /\ req[r2].disconnect_calls = 1

\* C3: when two report requests interleave, the file one of them wrote is
\* neither overwritten nor removed by the other before the first request's
\* response has been delivered from it.
C3_NoSharedReportFile ==
    \A r \in Requests :
        LET q == req[r]
        IN  (q.response = "file" /\ q.pc = "respond")
            => files[q.report_path] = r

\* C4: a report file is never removed before the response that serves it
\* has been delivered, a failed report request has removed the file it wrote
\* before it answers, and once no request is in progress no report file is
\* left.
C4_ReportFileRemovedAfterDelivery ==
    /\ \A r \in Requests :
           LET q == req[r]
           IN  /\ (q.response = "file" /\ q.pc = "respond")
                      => files[q.report_path] # 0
               /\ (q.kind = "report" /\ q.status = 500 /\ q.report_path # "")
                      => files[q.report_path] # r
    /\ (\A r \in Requests : req[r].pc \in {"idle", "complete"})
           => \A p \in ReportPaths : files[p] = 0

\* the alerts a request scheduled
Alerts(q) == SelectSeq(q.background_tasks, LAMBDA t : t.task = "send_email_alert")

\* C5 as stated: in an ingest request whose inserts all succeeded, the alert
\* is scheduled exactly once if the batch's avg_conversion_rate is below 5,
\* with a message containing that rate, and not at all if the rate is 5 or
\* more.
C5_AlertCarriesRate ==
    \A r \in Requests :
        LET q    == req[r]
            clk  == SigmaInt(Column(q.campaigns_data, "clicks"))
            conv == SigmaInt(Column(q.campaigns_data, "conversions"))
        IN  (q.kind = "fetch" /\ q.status = 200 /\ clk > 0) =>
                IF conv * 100 < 5 * clk
                THEN /\ Len(Alerts(q)) = 1
                     /\ Alerts(q)[1].body.rate_2f * clk = conv * 100 * 100
                ELSE Len(Alerts(q)) = 0

\* C5 as amended: ... with a message containing that rate rounded to two
\* decimal places ...
C5_AlertCarriesRoundedRate ==
    \A r \in Requests :
        LET q    == req[r]
            clk  == SigmaInt(Column(q.campaigns_data, "clicks"))
            conv == SigmaInt(Column(q.campaigns_data, "conversions"))
            off  == Alerts(q)[1].body.rate_2f * clk - conv * 100 * 100
        IN  (q.kind = "fetch" /\ q.status = 200 /\ clk > 0) =>
                IF conv * 100 < 5 * clk
                THEN /\ Len(Alerts(q)) = 1
                     /\ 2 * off <= clk /\ 2 * off >= -clk
                     /\ Len(q.background_tasks) = 1
                ELSE q.background_tasks = << >>

\* C5 witness: an acknowledged ingest whose rate is below 5 and whose alert,
\* showing 5.00, has run
C5_Witness ==
    \E r \in Requests :
        LET q    == req[r]
            clk  == SigmaInt(Column(q.campaigns_data, "clicks"))
            conv == SigmaInt(Column(q.campaigns_data, "conversions"))
        IN  /\ q.kind = "fetch" /\ q.status = 200 /\ q.pc = "complete"
            /\ conv * 100 < 5 * clk
            /\ Len(Alerts(q)) = 1
            /\ Alerts(q)[1].body.rate_2f = 500
            /\ q.alert # NoResult

\* C6: send_email_alert never raises: with the sender, the password or the
\* recipient missing it logs and opens no SMTP connection, a failure of the
\* SMTP connection, login or send is logged and swallowed, and the ingest
\* request that scheduled the alert has ended with its acknowledgment.
C6_AlertNeverFailsRequest ==
    \A r \in Requests :
        LET q == req[r]
        IN  q.alert # NoResult =>
                /\ ~q.alert.raised
                /\ ~q.alert.configured =>
                       /\ q.alert.smtp_connections = 0
                       /\ q.alert.logged = "Missing email configuration"
                       /\ ~q.alert.sent
                /\ (q.alert.configured /\ ~q.alert.sent) =>
                       q.alert.logged = "Failed to send email alert"
                /\ q.kind = "fetch"
                /\ q.status = 200
                /\ q.delivered = "json"

\* C6 witness: two acknowledged ingests, the alert of one found the
\* configuration missing, the mail server failed the alert of the other
C6_Witness ==
    \E r1, r2 \in Requests :
        /\ Finished(req[r1]) /\ req[r1].alert # NoResult
        /\ ~req[r1].alert.configured
        /\ Finished(req[r2]) /\ req[r2].alert # NoResult
        /\ req[r2].alert.configured /\ ~req[r2].alert.sent
        /\ req[r1].status = 200 /\ req[r2].status = 200

\* C7: a DATABASE_TYPE other than "postgres" or "mongodb" is an error raised
\* once when the process starts, before any request is served, and never
\* while a request is being handled.
C7_ConfigErrorAtStartup ==
    /\ process = "serving" => DATABASE_TYPE \in {"postgres", "mongodb"}
    /\ \A r \in Requests : ~req[r].value_error

(***************************************************************************)
(* Claims about the storage adapters (checked under SpecAdapters).         *)
(***************************************************************************)
\* the two dicts have the same keys and, but for "id", the same values
SameRecord(a, b) ==
    /\ DOMAIN a = DOMAIN b
    /\ \A k \in DOMAIN a \ {"id"} : a[k] = b[k]

\* every key of the dict given to the insert is read back with its value
ReadBack(supplied, read) ==
    \A k \in DOMAIN supplied : k \in DOMAIN read /\ read[k] = supplied[k]

\* the dicts given to the inserts that the last get_* reads back
Supplied ==
    IF fetched.op = "get_leads" THEN last_call.supplied_leads
    ELSE last_call.supplied_campaigns

\* C11: after the same inserts, accepted by both backends, get_leads and
\* get_campaigns of PostgresAdapter and of MongoAdapter return records with
\* the same field sets and the same field values but for the form of id,
\* also for a record inserted with a field absent, and every field value
\* given to an insert is read back unchanged.
C11_SameReadShapes ==
    (fetched.op # "none" /\ last_call.agreed) =>
        /\ Len(fetched.pg) = Len(fetched.mongo)
        /\ Len(fetched.pg) = Len(Supplied)
        /\ \A i \in 1..Len(fetched.pg) :
              /\ SameRecord(fetched.pg[i], fetched.mongo[i])
              /\ ReadBack(Supplied[i], fetched.pg[i])
              /\ ReadBack(Supplied[i], fetched.mongo[i])

\* the part of C11 that holds: the values read back, and the same records
\* from both backends when every insert gave every column
ReadBackAndSameWhenComplete ==
    (fetched.op # "none" /\ last_call.agreed) =>
        /\ Len(fetched.pg) = Len(fetched.mongo)
        /\ Len(fetched.pg) = Len(Supplied)
        /\ \A i \in 1..Len(fetched.pg) :
              /\ ReadBack(Supplied[i], fetched.pg[i])
              /\ ReadBack(Supplied[i], fetched.mongo[i])
              /\ \A k \in DOMAIN fetched.mongo[i] \ {"id"} :
                    fetched.pg[i][k] = fetched.mongo[i][k]
              /\ (\/ DOMAIN Supplied[i] \cup {"created_at"} = LeadColumns
                  \/ DOMAIN Supplied[i] = CampaignColumns)
                   => SameRecord(fetched.pg[i], fetched.mongo[i])

\* the date fields the last insert_campaign was given as text
TextDateFields ==
    {f \in CampaignDateColumns \cap DOMAIN last_call.arg :
        last_call.arg[f].type = "str"}

\* what C12 asks of one backend: raised tells whether the call raised,
\* before and after are the stored campaigns around it
ParsedOrRejected(raised, before, after) ==
    /\ (\A f \in TextDateFields : str(last_call.arg[f]) \in WellFormedDates) =>
          /\ ~raised
          /\ Len(after) = Len(before) + 1
          /\ \A f \in TextDateFields :
                /\ IsDateTime(after[Len(after)][f])
                /\ after[Len(after)][f] = fromisoformat(str(last_call.arg[f]))
    /\ (\E f \in TextDateFields : str(last_call.arg[f]) \notin WellFormedDates) =>
          raised
    /\ raised => after = before

\* C12: on both backends, insert_campaign given start_date or end_date as
\* text stores the campaign with that field parsed into a timestamp when the
\* text is a well-formed date and raises when it is malformed; after an
\* insert_campaign that raised, the stored campaigns are as they were.
C12_TextDatesParsedOrRejected ==
    (last_call.op = "insert_campaign" /\ TextDateFields # {}) =>
        /\ ParsedOrRejected(last_call.pg_raised, last_call.pg_before, pg_campaigns)
        /\ ParsedOrRejected(last_call.mongo_raised, last_call.mongo_before,
                            mongo_campaigns)

\* the part of C12 that holds: all of it on the document store, and on the
\* relational store that a failed insert leaves the table as it was
MongoParsesAndFailedInsertsStoreNothing ==
    last_call.op = "insert_campaign" =>
        /\ TextDateFields # {} =>
              ParsedOrRejected(last_call.mongo_raised, last_call.mongo_before,
                               mongo_campaigns)
        /\ last_call.pg_raised => pg_campaigns = last_call.pg_before
        /\ last_call.mongo_raised => mongo_campaigns = last_call.mongo_before

\* the relational adapter accepts no text for a date at all
PostgresRejectsTextDates ==
    (last_call.op = "insert_campaign" /\ TextDateFields # {}) =>
        last_call.pg_raised

(***************************************************************************)
(* Claims about the inserts of an ingest request (checked under Spec).     *)
(***************************************************************************)
\* C13: within one ingest request the inserts are called one after another,
\* all leads and then all campaigns, each at most once, the next one only
\* when the one before is over; when an insert raises, the request calls no
\* insert again, neither the same nor a further one, and it ends with
\* HTTP 500 whose detail is the message of the exception.
C13_SequentialNoRetry ==
    \A r \in Requests :
        LET q == req[r]
        IN  q.kind = "fetch" =>
              /\ Len(q.issued) <= LeadCount + CampaignCount
              /\ \A i \in 1..Len(q.issued) : q.issued[i] = Insert(i)
              /\ Len(q.issued) <= q.returned + 1
              /\ q.failed # 0 =>
                    /\ Len(q.issued) = q.failed
                    /\ q.returned = q.failed
                    /\ q.pc # "insert"
                    /\ q.status = 500
                    /\ q.response = "error"
                    /\ q.detail = q.exception
                    /\ q.detail \in InsertErrors
                    /\ Finished(q) => q.delivered = "error"

\* C13 witness: one ingest over whose first insert raised with inserts left
\* to call, another over whose last insert raised, each answered with 500
C13_Witness ==
    \E r1, r2 \in Requests :
        /\ Finished(req[r1]) /\ req[r1].kind = "fetch"
        /\ req[r1].failed = 1
        /\ Len(req[r1].issued) = 1
        /\ req[r1].delivered = "error" /\ req[r1].status = 500
        /\ Finished(req[r2]) /\ req[r2].kind = "fetch"
        /\ req[r2].failed = LeadCount + CampaignCount
        /\ Len(req[r2].issued) = LeadCount + CampaignCount
        /\ req[r2].delivered = "error" /\ req[r2].status = 500

\* the records of request r the backend holds
PersistedLeads(r)     == {i \in 1..LeadCount : <<r, i>> \in db_leads}
PersistedCampaigns(r) == {j \in 1..CampaignCount : <<r, j>> \in db_campaigns}

\* C14: when the k-th insert of an ingest request raises, the backend holds
\* of that request exactly the k-1 records inserted before it, from then on
\* (no rollback of the batch), and the request schedules no alert, whatever
\* the rate of its batch.
C14_PartialBatchPersists ==
    \A r \in Requests :
        LET q == req[r]
            k == q.failed
        IN  (q.kind = "fetch" /\ k # 0) =>
              /\ PersistedLeads(r) = {i \in 1..LeadCount : i < k}
              /\ PersistedCampaigns(r) = {j \in 1..CampaignCount : LeadCount + j < k}
              /\ Cardinality(PersistedLeads(r)) + Cardinality(PersistedCampaigns(r))
                     = k - 1
              /\ q.background_tasks = << >>
              /\ q.alert = NoResult

\* C14 witness: an ingest over whose batch has a rate below 5 and whose last
\* insert raised: the records before it are held, and no alert has run
C14_Witness ==
    \E r \in Requests :
        LET q    == req[r]
            clk  == SigmaInt(Column(q.campaigns_data, "clicks"))
            conv == SigmaInt(Column(q.campaigns_data, "conversions"))
        IN  /\ Finished(q) /\ q.kind = "fetch"
            /\ q.failed = LeadCount + CampaignCount
            /\ conv * 100 < 5 * clk
            /\ \A i \in 1..LeadCount : <<r, i>> \in db_leads
            /\ \A j \in 1..CampaignCount - 1 : <<r, j>> \in db_campaigns
            /\ <<r, CampaignCount>> \notin db_campaigns
            /\ q.alert = NoResult

=============================================================================
